---- MODULE Spec2Model ----
(***************************************************************************)
(* Model of the CloudFormation CLI Python language plugin:                 *)
(*   - python/rpdk/python/codegen.py : Python36LanguagePlugin              *)
(*       (init, generate, package and the two dependency build backends)   *)
(*   - src/cfn_resource/request.py   : RequestContext, extract_event_data  *)
(*                                                                         *)
(* A file name is a sequence of dot-free, non-empty pieces and "." pieces, *)
(* so that pathlib's suffix rule can be computed instead of assumed.       *)
(* A path is a sequence of names.  The file system is the set of paths of  *)
(* its regular files, plus a flag for the existence of the build folder.   *)
(***************************************************************************)
EXTENDS Integers, Sequences, FiniteSets, TLC

VARIABLES
    settings,     \* project.settings: a dict, as a set of <<key, value>>
    use_docker,   \* self._use_docker
    fs,           \* regular files below the project root (set of paths)
    build_dir,    \* whether the folder project.root / "build" exists
    pc,           \* position inside package(), "idle" between operations
    archive,      \* zip_file: set of [path, arcname], one per zip_file.write
    result,       \* how the package() run just made ended; "none" while it
                  \* runs and once another operation has changed the project
    events,       \* history: external clients/containers/processes launched in this run
    invoked,      \* history: build backends called in this run
    failure,      \* history: what the external build of this run raised
    produced,     \* history: files the backend of this run put on disk
    last,         \* history: inputs and membership of the last successful run
    again,        \* history: the run just finished repeated the inputs of the one before
    chosen,       \* history: the strategy answered at the last init() prompt
    event,        \* request adapter: the event under conversion
    ctx,          \* request adapter: outcome of RequestContext(event, context)
    data          \* request adapter: outcome of extract_event_data(event)

vars == <<settings, use_docker, fs, build_dir, pc, archive, result, events,
          invoked, failure, produced, last, again, chosen, event, ctx, data>>

pkgVars == <<settings, use_docker, fs, build_dir, pc, archive, result, events,
             invoked, failure, produced, last, again, chosen>>

reqVars == <<event, ctx, data>>

-----------------------------------------------------------------------------
(* Names and paths *)

Dot == "."

SUPPORT_LIB_NAME == <<"aws-cloudformation-rpdk-python-lib">>

\* f"{SUPPORT_LIB_NAME}-0.0.1.tar.gz"
SdistName == SUPPORT_LIB_NAME \o <<"-0", Dot, "0", Dot, "1", Dot, "tar", Dot, "gz">>

PycSuffix == <<Dot, "pyc">>

InitPy      == <<"__init__", Dot, "py">>
HandlersPy  == <<"handlers", Dot, "py">>
ModelsPy    == <<"models", Dot, "py">>
HandlersPyc == <<"handlers", Dot, "cpython-36", Dot, "pyc">>
HiddenPyc   == <<Dot, "pyc">>
SixPy       == <<"six", Dot, "py">>
SixPyc      == <<"six", Dot, "cpython-36", Dot, "pyc">>
PyCache     == <<"__pycache__">>
GitIgnore   == <<Dot, "gitignore">>
Requirements == <<"requirements", Dot, "txt">>
ReadmeMd    == <<"README", Dot, "md">>
TemplateYml == <<"template", Dot, "yml">>
SetupCfg    == <<"setup", Dot, "cfg">>

\* project.root on the host, and the mount point inside the build container
project_root  == << <<"home">>, <<"proj">> >>
internal_path == << <<"project">> >>

\* "_".join(namespace): one folder name
package_name == <<"org_svc_res">>

package_root == project_root \o << <<"src">> >>
handler_package_path == package_root \o <<package_name>>
deps_path == project_root \o << <<"build">> >>

Max(S) == CHOOSE x \in S : \A y \in S : y <= x

\* PurePath.suffix of a final component: the text from the last dot on,
\* unless that dot is the first or the last character of the name
suffix(name) ==
    LET dots == {i \in 1..Len(name) : name[i] = Dot}
    IN  IF dots = {} THEN <<>>
        ELSE LET i == Max(dots)
             IN  IF 1 < i /\ i < Len(name)
                 THEN SubSeq(name, i, Len(name))
                 ELSE <<>>

IsUnder(path, dir) ==
    /\ Len(path) > Len(dir)
    /\ SubSeq(path, 1, Len(dir)) = dir

\* Path.rglob("*") restricted to regular files (path.is_file())
rglob(files, src_path) == {p \in files : IsUnder(p, src_path)}

relative_to(path, base_path) == SubSeq(path, Len(base_path) + 1, Len(path))

-----------------------------------------------------------------------------
(* Dictionaries, as sets of <<key, value>> with at most one pair per key *)

Has(d, k) == \E kv \in d : kv[1] = k

Get(d, k, default) ==
    IF Has(d, k) THEN (CHOOSE kv \in d : kv[1] = k)[2] ELSE default

Put(d, k, v) == {kv \in d : kv[1] # k} \cup {<<k, v>>}

-----------------------------------------------------------------------------
(* codegen.py *)

\* str.lower() on the letters an answer is made of
LowerChar(c) ==
    CASE c = "N" -> "n"
      [] c = "O" -> "o"
      [] c = "Y" -> "y"
      [] OTHER   -> c

lower(value) == [i \in 1..Len(value) |-> LowerChar(value[i])]

validate_no(value) == lower(value) \notin {<<"n">>, <<"n", "o">>}

\* what the user may type at the prompt
Answers == { <<>>, <<"y">>, <<"Y">>, <<"n">>, <<"N">>, <<"n", "o">>,
             <<"N", "O">>, <<"N", "o">>, <<"n", "o", "n">> }

\* paths, relative to the pip --target folder, a build may install
DepRel == { <<SixPy>>, <<PyCache, SixPyc>>, <<HiddenPyc>> }

\* files found in the handler package that init/generate did not write
ExtraSrc == { handler_package_path \o <<PyCache, HandlersPyc>>,
              handler_package_path \o <<HiddenPyc>> }

\* a file of the package source root outside the handler package
OutsidePkg == package_root \o <<SetupCfg>>

Sdist(base_path) == base_path \o <<SdistName>>

\* mutant: the persisted setting is not read, the constructor's default stays
init_from_project_default(s) == TRUE

\* the value _init_from_project stores in self._use_docker
init_from_project(s) == Get(s, "use_docker", TRUE)

\* the files init() writes with project.safewrite
InitFiles ==
    { handler_package_path \o <<InitPy>>,
      handler_package_path \o <<HandlersPy>>,
      project_root \o <<GitIgnore>>,
      project_root \o <<Requirements>>,
      project_root \o <<ReadmeMd>>,
      project_root \o <<TemplateYml>> }

\* the file generate() writes with project.overwrite
GenerateFiles == { handler_package_path \o <<ModelsPy>> }

\* mutant: the bytecode filter is left out
recursive_relative_write_all(files, src_path, base_path) ==
    { [path |-> p, arcname |-> relative_to(p, base_path)] :
        p \in rglob(files, src_path) }

\* mutant: names are taken relative to the project root
recursive_relative_write_rooted(files, src_path, base_path) ==
    { [path |-> p, arcname |-> relative_to(p, project_root)] :
        p \in {q \in rglob(files, src_path) : suffix(q[Len(q)]) # PycSuffix} }

\* package.recursive_relative_write: the zip_file.write calls it makes
recursive_relative_write(files, src_path, base_path) ==
    { [path |-> p, arcname |-> relative_to(p, base_path)] :
        p \in {q \in rglob(files, src_path) : suffix(q[Len(q)]) # PycSuffix} }

\* _check_for_support_lib_sdist: TRUE when sdist.resolve(strict=True) succeeds
check_for_support_lib_sdist(files, base_path) == Sdist(base_path) \in files

\* _make_pip_command: the three paths of the command line
make_pip_command(base_path) ==
    [ find_links  |-> base_path,
      requirement |-> base_path \o <<Requirements>>,
      target      |-> base_path \o << <<"build">> >> ]

\* the bind mount {external_path: {"bind": internal_path, "mode": "rw"}}:
\* where a path written inside the container lands on the host
volumes(external_path, p) == external_path \o relative_to(p, internal_path)

\* mutant: APIError is missing from the except clause
docker_caught_narrow == {"ContainerError", "ImageLoadError"}

\* the exceptions each backend turns into DownstreamError
docker_caught == {"ContainerError", "ImageLoadError", "APIError"}
pip_caught    == {"FileNotFoundError", "CalledProcessError"}

\* what containers.run / subprocess_run may do
DockerOutcomes == {"ok", "ContainerError", "ImageLoadError", "APIError", "OtherError"}
PipOutcomes    == {"ok", "FileNotFoundError", "CalledProcessError", "OtherError"}

NoRun == [valid |-> FALSE, flag |-> TRUE, src |-> {}, installed |-> {}, names |-> {}]
NotAgain == [same |-> FALSE, before |-> {}]

Names(a) == {e.arcname : e \in a}

\* Python36LanguagePlugin.__init__: a new plugin object (a new CLI process)
Construct ==
    /\ pc = "idle"
    /\ use_docker' = TRUE
    /\ UNCHANGED <<settings, fs, build_dir, pc, archive, result, events, invoked,
                   failure, produced, last, again, chosen>>

\* init(project): _init_from_project, _prompt_for_use_docker, the scaffold files
init ==
    /\ pc = "idle"
    /\ \E answer \in Answers :
         /\ use_docker' = validate_no(answer)
         /\ settings' = Put(settings, "use_docker", validate_no(answer))
         /\ chosen' = IF validate_no(answer) THEN "docker" ELSE "pip"
    /\ fs' = fs \cup InitFiles
    /\ result' = "none"
    /\ UNCHANGED <<build_dir, pc, archive, events, invoked, failure,
                   produced, last, again>>

\* generate(project)
generate ==
    /\ pc = "idle"
    /\ use_docker' = init_from_project(settings)
    /\ fs' = fs \cup GenerateFiles
    /\ result' = "none"
    /\ UNCHANGED <<settings, build_dir, pc, archive, events, invoked,
                   failure, produced, last, again, chosen>>

\* package(project, zip_file), lines 149-160: a new zip_file, _init_from_project
package ==
    /\ pc = "idle"
    /\ use_docker' = init_from_project(settings)
    /\ archive' = {}
    /\ result' = "none"
    /\ events' = <<>>
    /\ invoked' = <<>>
    /\ failure' = "none"
    /\ produced' = {}
    /\ again' = NotAgain
    /\ pc' = "remove_build_artifacts"
    /\ UNCHANGED <<settings, fs, build_dir, last, chosen>>

\* an exception leaves package(): nothing further is written
Raise(err) ==
    /\ pc' = "idle"
    /\ result' = err

\* the exception _remove_build_artifacts logs and drops
rmtree_caught == {"FileNotFoundError"}

\* mutant: the build folder is left as it is
remove_build_artifacts_keep ==
    /\ pc = "remove_build_artifacts"
    /\ pc' = "build"
    /\ UNCHANGED <<settings, use_docker, fs, build_dir, archive, result, events,
                   invoked, failure, produced, last, again, chosen>>

\* _remove_build_artifacts(deps_path): shutil.rmtree removes the folder and all
\* below it, and raises FileNotFoundError when there is no such folder
remove_build_artifacts ==
    /\ pc = "remove_build_artifacts"
    /\ IF build_dir
       THEN /\ fs' = {p \in fs : ~IsUnder(p, deps_path)}
            /\ build_dir' = FALSE
            /\ pc' = "build"
            /\ UNCHANGED result
       ELSE /\ UNCHANGED <<fs, build_dir>>
            /\ IF "FileNotFoundError" \in rmtree_caught
               THEN pc' = "build" /\ UNCHANGED result
               ELSE Raise("FileNotFoundError")
    /\ UNCHANGED <<settings, use_docker, archive, events, invoked,
                   failure, produced, last, again, chosen>>

\* _build(base_path): one backend, by self._use_docker
build ==
    /\ pc = "build"
    /\ IF use_docker
       THEN /\ invoked' = Append(invoked, "docker")
            /\ pc' = "docker_build"
       ELSE /\ invoked' = Append(invoked, "pip")
            /\ pc' = "pip_build"
    /\ UNCHANGED <<settings, use_docker, fs, build_dir, archive, result, events,
                   failure, produced, last, again, chosen>>

\* mutant: the container build starts without the support library check
docker_build_unchecked ==
    /\ pc = "docker_build"
    /\ pc' = "docker_from_env"
    /\ UNCHANGED <<settings, use_docker, fs, build_dir, archive, result, events,
                   invoked, failure, produced, last, again, chosen>>

\* _docker_build, line 216: the support library check
docker_build ==
    /\ pc = "docker_build"
    /\ IF check_for_support_lib_sdist(fs, project_root)
       THEN /\ pc' = "docker_from_env"
            /\ UNCHANGED result
       ELSE Raise("StandardDistNotFoundError")
    /\ UNCHANGED <<settings, use_docker, fs, build_dir, archive, events, invoked,
                   failure, produced, last, again, chosen>>

\* _docker_build, line 229: docker.from_env(), outside the try block
docker_from_env ==
    /\ pc = "docker_from_env"
    /\ events' = Append(events, "docker.from_env")
    /\ \E outcome \in {"ok", "OtherError"} :
         IF outcome = "ok"
         THEN pc' = "docker_run" /\ UNCHANGED <<result, failure>>
         ELSE Raise(outcome) /\ failure' = outcome
    /\ UNCHANGED <<settings, use_docker, fs, build_dir, archive, invoked,
                   produced, last, again, chosen>>

\* the files a build that installs `rel` leaves on the host
DockerInstalled(rel) ==
    {volumes(project_root, make_pip_command(internal_path).target \o r) : r \in rel}

PipInstalled(rel) ==
    {make_pip_command(project_root).target \o r : r \in rel}

\* _docker_build, lines 230-242: containers.run and its except clause
docker_run ==
    /\ pc = "docker_run"
    /\ events' = Append(events, "containers.run")
    /\ \E outcome \in DockerOutcomes, rel \in SUBSET DepRel :
         /\ failure' = outcome
         /\ produced' = DockerInstalled(rel)
         /\ fs' = fs \cup DockerInstalled(rel)
         /\ IF outcome = "ok"
            THEN /\ build_dir' = TRUE
                 /\ pc' = "write_handler"
                 /\ UNCHANGED result
            ELSE /\ build_dir' = (build_dir \/ rel # {})
                 /\ Raise(IF outcome \in docker_caught
                          THEN "DownstreamError" ELSE outcome)
    /\ UNCHANGED <<settings, use_docker, archive, invoked, last, again, chosen>>

\* _pip_build, line 246: the support library check
pip_build ==
    /\ pc = "pip_build"
    /\ IF check_for_support_lib_sdist(fs, project_root)
       THEN /\ pc' = "pip_run"
            /\ UNCHANGED result
       ELSE Raise("StandardDistNotFoundError")
    /\ UNCHANGED <<settings, use_docker, fs, build_dir, archive, events, invoked,
                   failure, produced, last, again, chosen>>

\* _pip_build, lines 251-259: subprocess_run and its except clause
pip_run ==
    /\ pc = "pip_run"
    /\ events' = Append(events, "subprocess_run")
    /\ \E outcome \in PipOutcomes, rel \in SUBSET DepRel :
         /\ failure' = outcome
         /\ produced' = PipInstalled(rel)
         /\ fs' = fs \cup PipInstalled(rel)
         /\ IF outcome = "ok"
            THEN /\ build_dir' = TRUE
                 /\ pc' = "write_handler"
                 /\ UNCHANGED result
            ELSE /\ build_dir' = (build_dir \/ rel # {})
                 /\ Raise(IF outcome \in pip_caught
                          THEN "DownstreamError" ELSE outcome)
    /\ UNCHANGED <<settings, use_docker, archive, invoked, last, again, chosen>>

\* package, line 165: the handler package, relative to the package root
write_handler ==
    /\ pc = "write_handler"
    /\ archive' = archive \cup
                  recursive_relative_write(fs, handler_package_path, package_root)
    /\ pc' = "write_deps"
    /\ UNCHANGED <<settings, use_docker, fs, build_dir, result, events, invoked,
                   failure, produced, last, again, chosen>>

\* package, lines 166-168: the build folder, relative to itself; the run ends
write_deps ==
    /\ pc = "write_deps"
    /\ LET done == archive \cup recursive_relative_write(fs, deps_path, deps_path)
           src  == rglob(fs, package_root)
       IN  /\ archive' = done
           /\ again' = [same   |-> /\ last.valid
                                   /\ last.flag = use_docker
                                   /\ last.src = src
                                   /\ last.installed = produced,
                        before |-> IF last.valid THEN last.names ELSE {}]
           /\ last' = [valid |-> TRUE, flag |-> use_docker, src |-> src,
                       installed |-> produced, names |-> Names(done)]
    /\ pc' = "idle"
    /\ result' = "ok"
    /\ UNCHANGED <<settings, use_docker, fs, build_dir, events, invoked, failure,
                   produced, chosen>>

PkgInit ==
    /\ settings \in {{}, {<<"use_docker", TRUE>>}, {<<"use_docker", FALSE>>}}
    /\ use_docker = TRUE
    /\ \E extra \in SUBSET ExtraSrc, sd \in SUBSET {Sdist(project_root)} :
         fs = extra \cup sd \cup {OutsidePkg}
    /\ build_dir = FALSE
    /\ pc = "idle"
    /\ archive = {}
    /\ result = "none"
    /\ events = <<>>
    /\ invoked = <<>>
    /\ failure = "none"
    /\ produced = {}
    /\ last = NoRun
    /\ again = NotAgain
    /\ chosen = "none"

-----------------------------------------------------------------------------
(* request.py *)

(* An event is a Python dict.  Its entries are kept by the type of their    *)
(* value: strs holds the string-valued top-level keys; requestData is       *)
(* absent or a dict with string-valued (strs) and dict-valued (maps) keys;  *)
(* requestContext is absent, null ("none"), or a dict with an integer       *)
(* entry (ints) and a dict-valued entry (maps).                             *)

MaxInvocation == 2

TopValues ==
    { <<"awsAccountId", "123456789012">>, <<"region", "us-east-1">>,
      <<"resourceType", "Org::Svc::Res">>, <<"resourceTypeVersion", "1.0">>,
      <<"stackId", "arn:stack/S">> }

DataStrValues == { <<"logicalResourceId", "X">> }

DataMapValues ==
    { <<"resourceProperties", {<<"A", "1">>}>>,
      <<"resourceProperties", {}>>,
      <<"systemTags", {<<"aws:stack", "S">>}>>,
      <<"stackTags", {<<"team", "t">>}>>,
      <<"previousStackTags", {<<"team", "old">>}>>,
      <<"previousResourceProperties", {<<"A", "0">>}>> }

ContextMapValues ==
    { <<"callbackContext", {}>>, <<"callbackContext", {<<"step", "2">>}>> }

IsDict(d) == \A a \in d, b \in d : a[1] = b[1] => a = b

NoData == [present |-> FALSE, strs |-> {}, maps |-> {}]

RequestData ==
    {NoData} \cup
    { [present |-> TRUE, strs |-> s, maps |-> m] :
        s \in SUBSET DataStrValues,
        m \in {x \in SUBSET DataMapValues : IsDict(x)} }

NoContext == [kind |-> "absent", ints |-> {}, maps |-> {}]

RequestContexts ==
    { NoContext, [kind |-> "none", ints |-> {}, maps |-> {}] } \cup
    { [kind |-> "dict", ints |-> i, maps |-> m] :
        i \in {{}} \cup {{<<"invocation", n>>} : n \in 0..MaxInvocation},
        m \in {x \in SUBSET ContextMapValues : IsDict(x)} }

Events ==
    { [strs |-> s, requestData |-> rd, requestContext |-> rc] :
        s \in SUBSET TopValues, rd \in RequestData, rc \in RequestContexts }

\* mutant: systemTags is read with a default instead of a subscript
LookupsLenient ==
    << [in |-> "event", key |-> "awsAccountId"],
       [in |-> "event", key |-> "region"],
       [in |-> "event", key |-> "resourceType"],
       [in |-> "event", key |-> "resourceTypeVersion"],
       [in |-> "event", key |-> "stackId"],
       [in |-> "event", key |-> "requestData"],
       [in |-> "requestData", key |-> "logicalResourceId"],
       [in |-> "requestData", key |-> "resourceProperties"] >>

\* the subscript lookups of RequestContext.__init__, in the order they run
Lookups ==
    << [in |-> "event", key |-> "awsAccountId"],
       [in |-> "event", key |-> "region"],
       [in |-> "event", key |-> "resourceType"],
       [in |-> "event", key |-> "resourceTypeVersion"],
       [in |-> "event", key |-> "stackId"],
       [in |-> "event", key |-> "requestData"],
       [in |-> "requestData", key |-> "logicalResourceId"],
       [in |-> "requestData", key |-> "resourceProperties"],
       [in |-> "requestData", key |-> "systemTags"] >>

\* whether d[key] finds the key
Found(request, lk) ==
    IF lk.in = "event"
    THEN IF lk.key = "requestData"
         THEN request.requestData.present
         ELSE Has(request.strs, lk.key)
    ELSE /\ request.requestData.present
         /\ \/ Has(request.requestData.strs, lk.key)
            \/ Has(request.requestData.maps, lk.key)

Min(S) == CHOOSE x \in S : \A y \in S : x <= y

\* request["requestData"].get("stackTags", {})
stack_tags(request) == Get(request.requestData.maps, "stackTags", {})

\* request["requestData"].get("previousStackTags", {})
previous_stack_tags(request) == Get(request.requestData.maps, "previousStackTags", {})

\* mutant: the invocation count defaults to 1
invocation_count_one(request) == Get(request.requestContext.ints, "invocation", 1)

\* request.get("requestContext", {}).get("invocation", 0)
invocation_count(request) == Get(request.requestContext.ints, "invocation", 0)

Unset == [status |-> "unset", key |-> "", obj |-> {}]
KeyError(k) == [status |-> "KeyError", key |-> k, obj |-> {}]
AttributeError == [status |-> "AttributeError", key |-> "", obj |-> {}]
Return(v) == [status |-> "ok", key |-> "", obj |-> {v}]

\* RequestContext.__init__(request, context)
RequestContext(request) ==
    LET missing == {i \in 1..Len(Lookups) : ~Found(request, Lookups[i])}
        rd == request.requestData
    IN  IF missing # {} THEN KeyError(Lookups[Min(missing)].key)
        ELSE IF request.requestContext.kind = "none" THEN AttributeError
        ELSE Return(
          [ aws_account_id        |-> Get(request.strs, "awsAccountId", ""),
            region                |-> Get(request.strs, "region", ""),
            resource_type         |-> Get(request.strs, "resourceType", ""),
            resource_type_version |-> Get(request.strs, "resourceTypeVersion", ""),
            stack_id              |-> Get(request.strs, "stackId", ""),
            logical_resource_id   |-> Get(rd.strs, "logicalResourceId", ""),
            resource_properties   |-> Get(rd.maps, "resourceProperties", {}),
            system_tags           |-> Get(rd.maps, "systemTags", {}),
            stack_tags            |-> stack_tags(request),
            get_remaining_time_in_millis |-> "context.get_remaining_time_in_millis",
            invocation_count      |-> invocation_count(request),
            previous_stack_tags   |-> previous_stack_tags(request) ])

\* event["requestContext"]: raises KeyError when the key is absent
request_context_lookup(ev) == ev.requestContext.kind # "absent"

\* bool(event["requestContext"]): a non-empty dict
truthy(rc) == rc.kind = "dict" /\ (rc.ints \cup rc.maps) # {}

\* extract_event_data(event)
extract_event_data(ev) ==
    LET rd == ev.requestData
        rc == ev.requestContext
    IN  IF ~rd.present THEN KeyError("requestData")
        ELSE IF ~Has(rd.maps, "resourceProperties") THEN KeyError("resourceProperties")
        ELSE IF ~request_context_lookup(ev) THEN KeyError("requestContext")
        ELSE IF truthy(rc) /\ ~Has(rc.maps, "callbackContext")
             THEN KeyError("callbackContext")
        ELSE Return(
          [ resource_properties |-> Get(rd.maps, "resourceProperties", {}),
            previous_resource_properties |->
                Get(rd.maps, "previousResourceProperties", {}),
            callback_context |->
                IF truthy(rc) THEN Get(rc.maps, "callbackContext", {}) ELSE {} ])

\* a handler invocation builds the context of its event
BuildContext ==
    /\ ctx = Unset
    /\ ctx' = RequestContext(event)
    /\ UNCHANGED <<event, data>>

\* a handler invocation extracts the data of its event
ExtractEventData ==
    /\ data = Unset
    /\ data' = extract_event_data(event)
    /\ UNCHANGED <<event, ctx>>

ReqInit ==
    /\ event \in Events
    /\ ctx = Unset
    /\ data = Unset

\* the package pipeline at rest, while the request adapter is exercised
PkgRest ==
    /\ settings = {}
    /\ use_docker = TRUE
    /\ fs = {}
    /\ build_dir = FALSE
    /\ pc = "idle"
    /\ archive = {}
    /\ result = "none"
    /\ events = <<>>
    /\ invoked = <<>>
    /\ failure = "none"
    /\ produced = {}
    /\ last = NoRun
    /\ again = NotAgain
    /\ chosen = "none"

\* the request adapter at rest, while the package pipeline is exercised
ReqRest ==
    /\ event = [strs |-> {}, requestData |-> NoData, requestContext |-> NoContext]
    /\ ctx = Unset
    /\ data = Unset

-----------------------------------------------------------------------------
(* Specifications *)

Init == PkgInit /\ ReqRest

Next ==
    \/ Construct /\ UNCHANGED reqVars
    \/ init /\ UNCHANGED reqVars
    \/ generate /\ UNCHANGED reqVars
    \/ package /\ UNCHANGED reqVars
    \/ remove_build_artifacts /\ UNCHANGED reqVars
    \/ build /\ UNCHANGED reqVars
    \/ docker_build /\ UNCHANGED reqVars
    \/ docker_from_env /\ UNCHANGED reqVars
    \/ docker_run /\ UNCHANGED reqVars
    \/ pip_build /\ UNCHANGED reqVars
    \/ pip_run /\ UNCHANGED reqVars
    \/ write_handler /\ UNCHANGED reqVars
    \/ write_deps /\ UNCHANGED reqVars

Spec == Init /\ [][Next]_vars

RequestInit == PkgRest /\ ReqInit

RequestNext ==
    \/ BuildContext /\ UNCHANGED pkgVars
    \/ ExtractEventData /\ UNCHANGED pkgVars

RequestSpec == RequestInit /\ [][RequestNext]_vars

-----------------------------------------------------------------------------
(* Properties of the package pipeline (specification Spec) *)

Finished == pc = "idle" /\ result # "none"
Succeeded == pc = "idle" /\ result = "ok"
FileName(path) == path[Len(path)]

\* the name ends in the characters ".pyc"
EndsWithPyc(name) ==
    /\ Len(name) >= 2
    /\ SubSeq(name, Len(name) - 1, Len(name)) = <<".", "pyc">>

\* the name is a non-empty stem followed by ".pyc"
Bytecode(name) == EndsWithPyc(name) /\ Len(name) > 2

\* C1: when the support distribution archive is not in the project root, no
\* container client, container or process is ever launched in the run, for
\* either strategy, and a run that reached its backend ended with
\* StandardDistNotFoundError.
C1_NoLaunchWithoutSdist ==
    Sdist(project_root) \notin fs =>
        /\ events = <<>>
        /\ pc \notin {"docker_from_env", "docker_run", "pip_run",
                      "write_handler", "write_deps"}
        /\ (Finished /\ invoked # <<>>) => result = "StandardDistNotFoundError"

C1_Witness ==
    /\ Sdist(project_root) \notin fs
    /\ Finished
    /\ invoked = <<"docker">>
    /\ result = "StandardDistNotFoundError"
    /\ events = <<>>

\* C3 as stated: after a successful run no archive entry has a name ending in
\* ".pyc".
C3_NoNameEndsInPyc ==
    Succeeded => \A e \in archive : ~EndsWithPyc(FileName(e.arcname))

\* C3 as amended: after a successful run no archive entry has a name made of a
\* non-empty stem followed by ".pyc", whichever folder the file came from.
C3_NoBytecodeInArchive ==
    Succeeded => \A e \in archive : ~Bytecode(FileName(e.arcname))

C3_Witness ==
    /\ Succeeded
    /\ archive # {}
    /\ \E p \in rglob(fs, handler_package_path) : Bytecode(FileName(p))
    /\ \E p \in rglob(fs, deps_path) : Bytecode(FileName(p))

\* C4: two successful runs, with the same strategy flag, the same source tree
\* and a backend that installed the same files, have the same set of archive
\* entry names, whatever runs before or between them left in the build folder.
C4_Idempotent ==
    again.same => last.names = again.before

C4_Witness ==
    /\ again.same
    /\ Succeeded
    /\ last.installed # {}
    /\ \E e \in archive : IsUnder(e.path, handler_package_path)

\* C7: when the external build raises one of the errors a backend handles
\* (ContainerError, ImageLoadError, APIError; FileNotFoundError,
\* CalledProcessError), the run ends with DownstreamError and the archive has
\* no entry.
C7_BuildFailureIsDownstream ==
    failure \in {"ContainerError", "ImageLoadError", "APIError",
                 "FileNotFoundError", "CalledProcessError"} =>
        /\ pc = "idle"
        /\ archive = {}
        /\ Finished => result = "DownstreamError"

C7_Witness ==
    /\ failure = "APIError"
    /\ result = "DownstreamError"
    /\ invoked = <<"docker">>
    /\ produced # {}
    /\ archive = {}

\* C8 as stated: after a successful run every regular file below the build
\* folder is in the archive under its path relative to the build folder, and
\* every handler file whose name does not end in ".pyc" is in the archive
\* under its path relative to the package source root.
C8_EveryBuildFileArchived ==
    Succeeded =>
        /\ \A p \in rglob(fs, deps_path) :
               [path |-> p, arcname |-> relative_to(p, deps_path)] \in archive
        /\ \A p \in rglob(fs, handler_package_path) :
               ~EndsWithPyc(FileName(p)) =>
               [path |-> p, arcname |-> relative_to(p, package_root)] \in archive

\* C8 as amended: after a successful run every regular file below the build
\* folder whose name is not a stem followed by ".pyc" is in the archive under
\* its path relative to the build folder (never under a "build" prefix), and
\* every handler file whose name does not end in ".pyc" is in the archive
\* under its path relative to the package source root.
C8_NonBytecodeFilesArchived ==
    Succeeded =>
        /\ \A p \in rglob(fs, deps_path) :
               ~Bytecode(FileName(p)) =>
               [path |-> p, arcname |-> relative_to(p, deps_path)] \in archive
        /\ \A p \in rglob(fs, handler_package_path) :
               ~EndsWithPyc(FileName(p)) =>
               [path |-> p, arcname |-> relative_to(p, package_root)] \in archive
        /\ \A e \in archive :
               IsUnder(e.path, deps_path) => e.arcname[1] # <<"build">>

C8_Witness ==
    /\ Succeeded
    /\ \E p \in rglob(fs, deps_path) : ~Bytecode(FileName(p))
    /\ \E p \in rglob(fs, deps_path) : Bytecode(FileName(p))
    /\ \E p \in rglob(fs, handler_package_path) : ~EndsWithPyc(FileName(p))

Selected == IF Get(settings, "use_docker", TRUE) THEN "docker" ELSE "pip"

\* C9: the strategy answered at init() is the one stored in the project
\* settings; a run calls at most one backend, and once past _build it has
\* called exactly the backend the stored flag selects (Containerized when the
\* flag is true or not stored, Local when false) and launched nothing of the
\* other backend.
C9_BackendByPersistedFlag ==
    /\ chosen # "none" =>
           /\ Has(settings, "use_docker")
           /\ Selected = chosen
    /\ Len(invoked) <= 1
    /\ pc \in {"docker_build", "docker_from_env", "docker_run", "pip_build",
               "pip_run", "write_handler", "write_deps"} =>
           invoked = <<Selected>>
    /\ invoked # <<"docker">> =>
           \A i \in 1..Len(events) : events[i] = "subprocess_run"
    /\ invoked # <<"pip">> =>
           \A i \in 1..Len(events) : events[i] # "subprocess_run"

C9_Witness ==
    /\ chosen = "pip"
    /\ pc = "write_deps"
    /\ invoked = <<"pip">>
    /\ events = <<"subprocess_run">>
    /\ use_docker = FALSE

\* C10: whenever a backend is about to run or running, the build folder has
\* been removed; cleanup of a missing folder ends no run (every finished run
\* reached its backend); and every archive entry taken from the build folder
\* is a file the backend of this very run produced.
C10_BuildFolderNeverReused ==
    /\ pc \in {"build", "docker_build", "docker_from_env", "docker_run",
               "pip_build", "pip_run"} =>
           /\ ~build_dir
           /\ rglob(fs, deps_path) = {}
    /\ Finished => invoked # <<>>
    /\ \A e \in archive : IsUnder(e.path, deps_path) => e.path \in produced

C10_Witness ==
    /\ Succeeded
    /\ <<SixPy>> \in again.before
    /\ <<SixPy>> \notin Names(archive)
    /\ \E e \in archive : IsUnder(e.path, deps_path)

-----------------------------------------------------------------------------
(* Properties of the request adapter (specification RequestSpec) *)

RequiredTop == {"awsAccountId", "region", "resourceType", "resourceTypeVersion",
                "stackId"}

\* one of the eight required keys is not in the event
RequiredAbsent(ev) ==
    \/ \E k \in RequiredTop : ~Has(ev.strs, k)
    \/ ~ev.requestData.present
    \/ ~Has(ev.requestData.strs, "logicalResourceId")
    \/ ~Has(ev.requestData.maps, "resourceProperties")
    \/ ~Has(ev.requestData.maps, "systemTags")

\* C2: extract_event_data on an event with valid requestData whose
\* requestContext is absent, or present and falsy, returns with
\* callback_context = {}.
C2_AbsentContextDefaults ==
    ( /\ data # Unset
      /\ event.requestData.present
      /\ Has(event.requestData.maps, "resourceProperties")
      /\ ~truthy(event.requestContext) ) =>
        /\ data.status = "ok"
        /\ \A d \in data.obj : d.callback_context = {}

\* C5: when any of the eight required keys is absent, building the context
\* fails with KeyError and produces no context object.
C5_MissingRequiredKeyFails ==
    (ctx # Unset /\ RequiredAbsent(event)) =>
        /\ ctx.status = "KeyError"
        /\ ctx.obj = {}

C5_Witness ==
    /\ ctx.status = "KeyError"
    /\ ctx.key = "systemTags"
    /\ \A k \in RequiredTop : Has(event.strs, k)
    /\ Has(event.requestData.maps, "resourceProperties")

\* C6: on an event with every required key and without stackTags,
\* previousStackTags and requestContext, building the context succeeds with
\* stack_tags = {}, previous_stack_tags = {}, invocation_count = 0 and every
\* required field equal to the event's value.
C6_MinimalEventDefaults ==
    ( /\ ctx # Unset
      /\ ~RequiredAbsent(event)
      /\ ~Has(event.requestData.maps, "stackTags")
      /\ ~Has(event.requestData.maps, "previousStackTags")
      /\ event.requestContext.kind = "absent" ) =>
        /\ ctx.status = "ok"
        /\ ctx.obj # {}
        /\ \A c \in ctx.obj :
             /\ c.stack_tags = {}
             /\ c.previous_stack_tags = {}
             /\ c.invocation_count = 0
             /\ <<"awsAccountId", c.aws_account_id>> \in event.strs
             /\ <<"region", c.region>> \in event.strs
             /\ <<"resourceType", c.resource_type>> \in event.strs
             /\ <<"resourceTypeVersion", c.resource_type_version>> \in event.strs
             /\ <<"stackId", c.stack_id>> \in event.strs
             /\ <<"logicalResourceId", c.logical_resource_id>>
                    \in event.requestData.strs
             /\ <<"resourceProperties", c.resource_properties>>
                    \in event.requestData.maps
             /\ <<"systemTags", c.system_tags>> \in event.requestData.maps

C6_Witness ==
    /\ ctx.status = "ok"
    /\ ~Has(event.requestData.maps, "stackTags")
    /\ ~Has(event.requestData.maps, "previousStackTags")
    /\ event.requestContext.kind = "absent"
    /\ \E c \in ctx.obj : c.resource_properties # {} /\ c.invocation_count = 0

====
